---- MODULE Spec2Model ----
(***************************************************************************)
(* Model of the projection engine of the car value predictor:             *)
(*   app/streamlit/utils/prediction_logic.py  (trajectory calculator)     *)
(*   app/streamlit/utils/data_processing.py   (payload builder, metrics)  *)
(*   app/streamlit/utils/visualizations.py    (comparison payloads)       *)
(*                                                                         *)
(* Numbers.  Ages and kilometres are Python ints.  Prices are floats; the  *)
(* model keeps a price as an integer number of thousandths of a euro and   *)
(* every column that DataFrame.round(2) produces as an integer number of   *)
(* hundredths.  Quotients are kept exact (numerator, denominator) until    *)
(* they are rounded, which is what round() and DataFrame.round see up to   *)
(* the last bit of a double.                                               *)
(*                                                                         *)
(* Optional values.  None (Python) and NaN/NA (pandas) are the empty       *)
(* sequence, a present value v is <<v>>.                                   *)
(***************************************************************************)
EXTENDS Integers, Sequences, FiniteSets, TLC

VARIABLES
    pc,                  \* position of the modelled call
    cur_age,             \* calculate_years_and_kms: argument
    cur_km,              \* calculate_years_and_kms: argument
    expected_annual_km,  \* calculate_years_and_kms: argument, None or <<int>>
    years,               \* age axis (list of int)
    explicit_kms,        \* None or <<list of int>>
    avg_per_year,        \* avg km per year handed on to the payload builders
    fuel_type, brand, segment, body_type,   \* the four categorical selections
    comparison_key,      \* build_comparison_data: "fuel_type" or "brand"
    comparison_val,      \* build_comparison_data: the candidate value
    payloads,            \* list of payload records built by the last builder
    raised,              \* exception raised by the last call, "" when none
    df,                  \* calculate_depreciation_metrics: input rows
    df_out,              \* calculate_depreciation_metrics: returned rows
    error_msg,           \* result of the last validator: None or <<message>>
    preds,               \* result of the gateway call: None or <<list of prices>>
    model,               \* the loaded estimator: the gateway's price function
    all_brands,          \* opts["brand"]: sorted list of the brands on offer
    gateway_calls,       \* calls of cached_predict made by the request so far
    shown,               \* st.error messages of the request, in order
    rendered,            \* outputs the request has rendered, in order
    kpi,                 \* KPI block: None or <<record>>
    fuel_series,         \* rows of the fuel type comparison
    brand_series,        \* rows of the brand comparison chart
    brand_table,         \* calculate_brand_comparison_data: returned rows
    run1,                \* the comparison series of the previous run
    _MODEL,              \* inference.predict: cached model, None when unset
    _MODEL_PATH,         \* inference.predict: path of the cached model
    artifacts,           \* the model files on disk, by path
    reads,               \* paths joblib.load has read, in order
    returned,            \* outcome of the last load_model call
    handed,              \* the table predict hands to model.predict
    max_pages,           \* scrape_data: argument
    page_number,         \* scrape_data: loop variable
    requested,           \* scrape_data: URLs requested, in order
    written              \* scrape_data: page files written

vars == << pc, cur_age, cur_km, expected_annual_km, years, explicit_kms,
           avg_per_year, fuel_type, brand, segment, body_type,
           comparison_key, comparison_val, payloads, raised, df, df_out,
           error_msg, preds, model, all_brands, gateway_calls, shown,
           rendered, kpi, fuel_series, brand_series, brand_table, run1,
           _MODEL, _MODEL_PATH, artifacts, reads, returned, handed,
           max_pages, page_number, requested, written >>

trajVars == << cur_age, cur_km, expected_annual_km >>
selVars  == << fuel_type, brand, segment, body_type >>
cmpVars  == << comparison_key, comparison_val >>
dfVars   == << df, df_out >>
loaderVars == << _MODEL, _MODEL_PATH, artifacts, reads, returned >>
scrapeVars == << max_pages, page_number, requested, written >>
envVars  == << model, all_brands, loaderVars, handed, scrapeVars >>
outVars  == << gateway_calls, shown, rendered, kpi, fuel_series,
               brand_series, brand_table, run1 >>
pipeVars == << error_msg, preds, envVars, outVars >>

----------------------------------------------------------------------------
(* Bounds of the model *)

MaxAge == 12
MaxKm == 9
MaxExpected == 2
MaxYears == 3
MaxRows == 3
MaxAvg == 1

(* Constants of the program *)

AgeWindowSplit == 10
FullWindowStop == 11
ForwardWindowLen == 4

----------------------------------------------------------------------------
(* Python / pandas primitives *)

None == << >>
Some(v) == << v >>
IsNone(o) == o = << >>
Val(o) == o[1]

\* the inference module as imported (lines 10-11), no table handed to a
\* model, no scrape under way
ProcessIdle ==
    /\ _MODEL = None
    /\ _MODEL_PATH = None
    /\ artifacts = << >>
    /\ reads = << >>
    /\ returned = None
    /\ handed = None
    /\ max_pages = 0
    /\ page_number = 0
    /\ requested = << >>
    /\ written = {}

\* nothing validated, predicted, shown or rendered yet
PipeIdle ==
    /\ ProcessIdle
    /\ error_msg = None
    /\ preds = None
    /\ model = << >>
    /\ all_brands = << >>
    /\ gateway_calls = 0
    /\ shown = << >>
    /\ rendered = << >>
    /\ kpi = None
    /\ fuel_series = << >>
    /\ brand_series = << >>
    /\ brand_table = << >>
    /\ run1 = None

Abs(x) == IF x < 0 THEN -x ELSE x

\* floor(n / d) for any sign of n and d, d # 0
FloorDiv(n, d) ==
    LET nn == IF d < 0 THEN -n ELSE n
        dd == IF d < 0 THEN -d ELSE d
    IN  IF nn >= 0 THEN nn \div dd ELSE -(((-nn) + dd - 1) \div dd)

\* Python round(n / d) and numpy rint(n / d): nearest integer, a tie goes to
\* the even neighbour.
RoundHalfEven(n, d) ==
    LET nn == IF d < 0 THEN -n ELSE n
        dd == IF d < 0 THEN -d ELSE d
        q  == FloorDiv(nn, dd)
        r  == nn - q * dd
    IN  IF 2 * r < dd THEN q
        ELSE IF 2 * r > dd THEN q + 1
        ELSE IF q % 2 = 0 THEN q ELSE q + 1

\* int(n / d): truncation toward zero
IntTrunc(n, d) ==
    LET nn == IF d < 0 THEN -n ELSE n
        dd == IF d < 0 THEN -d ELSE d
    IN  IF nn >= 0 THEN nn \div dd ELSE -((-nn) \div dd)

\* list(range(a, b))
Range(a, b) == [i \in 1..(IF b > a THEN b - a ELSE 0) |-> a + i - 1]

\* all sequences over S of length 0..n
SeqsUpTo(S, n) == UNION {[1..k -> S] : k \in 0..n}

----------------------------------------------------------------------------
(* prediction_logic.calculate_years_and_kms *)

\* line 23
AvgPerYear(age, km) == IF age > 0 THEN IntTrunc(km, age) ELSE km

YearsAxisOffByOne(age) ==
    IF age <= AgeWindowSplit THEN Range(0, FullWindowStop)
    ELSE Range(age, age + ForwardWindowLen)

\* lines 25-28
YearsAxis(age) ==
    IF age < AgeWindowSplit THEN Range(0, FullWindowStop)
    ELSE Range(age, age + ForwardWindowLen)

PastKmTruncated(y, age, km, avg) ==
    IF age > 0 THEN IntTrunc(y * km, age) ELSE y * avg

\* lines 33-37: y <= cur_age.  round(y * (cur_km / cur_age)) equals the
\* half-even rounding of the exact quotient for every y the axis can hold
\* at or below cur_age (y < cur_age only when cur_age < 10).
PastKm(y, age, km, avg) ==
    IF age > 0 THEN RoundHalfEven(y * km, age) ELSE y * avg

FutureKmFromOrigin(y, age, km, expected, avg) ==
    IF ~IsNone(expected) THEN km + y * Val(expected) ELSE y * avg

\* lines 39-43: y > cur_age
FutureKm(y, age, km, expected, avg) ==
    IF ~IsNone(expected) THEN km + (y - age) * Val(expected) ELSE y * avg

\* lines 31-43, one iteration
KmAt(y, age, km, expected, avg) ==
    IF y <= age THEN PastKm(y, age, km, avg)
    ELSE FutureKm(y, age, km, expected, avg)

\* lines 30-43
ExplicitKms(ys, age, km, expected, avg) ==
    [i \in 1..Len(ys) |-> KmAt(ys[i], age, km, expected, avg)]

CalculateYearsAndKms ==
    /\ pc = "calc"
    /\ LET avg == AvgPerYear(cur_age, cur_km)
           ys  == YearsAxis(cur_age)
       IN  /\ avg_per_year' = avg
           /\ years' = ys
           /\ explicit_kms' =
                  Some(ExplicitKms(ys, cur_age, cur_km, expected_annual_km, avg))
    /\ pc' = "calc_done"
    /\ UNCHANGED << trajVars, selVars, cmpVars, payloads, raised, dfVars,
                    pipeVars >>

InitTraj ==
    /\ pc = "calc"
    /\ cur_age \in 0..MaxAge
    /\ cur_km \in 0..MaxKm
    /\ expected_annual_km \in {None} \cup {Some(e) : e \in 0..MaxExpected}
    /\ years = << >>
    /\ explicit_kms = None
    /\ avg_per_year = 0
    /\ fuel_type = "" /\ brand = "" /\ segment = "" /\ body_type = ""
    /\ comparison_key = "" /\ comparison_val = ""
    /\ payloads = << >>
    /\ raised = ""
    /\ df = << >>
    /\ df_out = << >>
    /\ PipeIdle

NextTraj == CalculateYearsAndKms

SpecTraj == InitTraj /\ [][NextTraj]_vars

----------------------------------------------------------------------------
(* data_processing.build_prediction_payloads *)

\* lines 88-94: the length check of explicit_kms ends in `pass`; neither of
\* its outcomes raises.
ShapeCheck(ys, kms) ==
    IF ~IsNone(kms) /\ Len(Val(kms)) # Len(ys) THEN "" ELSE ""

\* lines 97-100; i is Python's 0-based index
PayloadKm(i, y, avg, kms) ==
    IF ~IsNone(kms) /\ i < Len(Val(kms)) THEN Val(kms)[i + 1] ELSE y * avg

PredictionPayloadsNoBrand(ys, ft, br, sg, bt, avg, kms) ==
    [i \in 1..Len(ys) |->
        [km        |-> PayloadKm(i - 1, ys[i], avg, kms),
         fuel_type |-> ft,
         age       |-> ys[i],
         brand     |-> "",
         segment   |-> sg,
         body_type |-> bt]]

\* lines 96-110
PredictionPayloads(ys, ft, br, sg, bt, avg, kms) ==
    [i \in 1..Len(ys) |->
        [km        |-> PayloadKm(i - 1, ys[i], avg, kms),
         fuel_type |-> ft,
         age       |-> ys[i],
         brand     |-> br,
         segment   |-> sg,
         body_type |-> bt]]

BuildPredictionPayloads ==
    /\ pc = "build"
    /\ raised' = ShapeCheck(years, explicit_kms)
    /\ payloads' = PredictionPayloads(years, fuel_type, brand, segment,
                                      body_type, avg_per_year, explicit_kms)
    /\ pc' = "built"
    /\ UNCHANGED << trajVars, years, explicit_kms, avg_per_year, selVars,
                    cmpVars, dfVars, pipeVars >>

(* visualizations.build_comparison_data: the payloads of one candidate *)

\* lines 320-328: base_payload.copy(), km, age, then the compared field
ComparisonPayload(i, y, key, val, base, avg, kms) ==
    LET p == [km        |-> PayloadKm(i, y, avg, kms),
              fuel_type |-> base.fuel_type,
              age       |-> y,
              brand     |-> base.brand,
              segment   |-> base.segment,
              body_type |-> base.body_type]
    IN  IF key = "fuel_type" THEN [p EXCEPT !.fuel_type = val]
        ELSE [p EXCEPT !.brand = val]

\* lines 318-329
ComparisonPayloads(ys, key, val, base, avg, kms) ==
    [i \in 1..Len(ys) |-> ComparisonPayload(i - 1, ys[i], key, val, base, avg, kms)]

\* chart_renderers lines 59-64 and 98-103
BasePayload ==
    [fuel_type |-> fuel_type, brand |-> brand,
     segment |-> segment, body_type |-> body_type]

FuelTypes == {"diesel", "gasolina"}
Brands == {"seat", "audi"}

BuildComparisonPayloads ==
    /\ pc = "build"
    /\ \E key \in {"fuel_type", "brand"} :
         \E val \in (IF key = "fuel_type" THEN FuelTypes ELSE Brands) :
            /\ comparison_key' = key
            /\ comparison_val' = val
            /\ payloads' = ComparisonPayloads(years, key, val, BasePayload,
                                              avg_per_year, explicit_kms)
    /\ raised' = ""
    /\ pc' = "cmp_built"
    /\ UNCHANGED << trajVars, years, explicit_kms, avg_per_year, selVars,
                    dfVars, pipeVars >>

AgeVals == {0, 2}
KmVals == {0, MaxKm}

InitPayloads ==
    /\ pc = "build"
    /\ cur_age = 0 /\ cur_km = 0 /\ expected_annual_km = None
    /\ years \in SeqsUpTo(AgeVals, MaxYears)
    /\ explicit_kms \in {None} \cup {Some(k) : k \in SeqsUpTo(KmVals, MaxYears)}
    /\ avg_per_year \in 0..MaxAvg
    /\ fuel_type \in {"", "diesel"}
    /\ brand \in {"", "seat"}
    /\ segment \in {"", "suv"}
    /\ body_type \in {"", "berlina"}
    /\ comparison_key = "" /\ comparison_val = ""
    /\ payloads = << >>
    /\ raised = ""
    /\ df = << >>
    /\ df_out = << >>
    /\ PipeIdle

NextPayloads == BuildPredictionPayloads \/ BuildComparisonPayloads

SpecPayloads == InitPayloads /\ [][NextPayloads]_vars

----------------------------------------------------------------------------
(* data_processing.calculate_depreciation_metrics *)

\* An unrounded float is the exact quotient <<n, d>> in lowest terms, d > 0.
\* A price of the input column is an integer p of thousandths.
RECURSIVE Gcd(_, _)
Gcd(a, b) == IF b = 0 THEN a ELSE Gcd(b, a % b)

Rat(n, d) ==
    LET g == Gcd(Abs(n), Abs(d))
        sgn == IF d < 0 THEN -1 ELSE 1
    IN  << sgn * (n \div g), sgn * (d \div g) >>

Price(p) == Rat(p, 1000)
RatSub(a, b) == Rat(a[1] * b[2] - b[1] * a[2], a[2] * b[2])
RatDiv(a, b) == Rat(a[1] * b[2], a[2] * b[1])
RatTimes(a, k) == Rat(a[1] * k, a[2])
RatIsZero(a) == a[1] = 0

\* Series arithmetic propagates NaN
OptSub(a, b) == IF IsNone(a) \/ IsNone(b) THEN None
                ELSE Some(RatSub(Val(a), Val(b)))
OptDiv(a, b) == IF IsNone(a) \/ IsNone(b) THEN None
                ELSE Some(RatDiv(Val(a), Val(b)))

\* Series.fillna(0.0)
FillNaZero(o) == IF IsNone(o) THEN << 0, 1 >> ELSE Val(o)

\* DataFrame.round(2): the value in hundredths
Round2(a) == RoundHalfEven(100 * a[1], a[2])

\* line 125: the prediction column, already numeric
PredictionCol(rows) == [i \in 1..Len(rows) |-> Price(rows[i].prediction)]

ShiftFillZero(col) ==
    [i \in 1..Len(col) |-> IF i = 1 THEN Some(<< 0, 1 >>) ELSE Some(col[i - 1])]

\* line 128: Series.shift(1), NaN in the first row
Shift(col) ==
    [i \in 1..Len(col) |-> IF i = 1 THEN None ELSE Some(col[i - 1])]

DepreciationColReversed(prev, pred) ==
    [i \in 1..Len(pred) |-> FillNaZero(OptSub(Some(pred[i]), prev[i]))]

\* lines 129-130
DepreciationCol(prev, pred) ==
    [i \in 1..Len(pred) |-> FillNaZero(OptSub(prev[i], Some(pred[i])))]

\* line 133: prev.replace({0: pd.NA})
ReplaceZeroNA(o) == IF ~IsNone(o) /\ RatIsZero(Val(o)) THEN None ELSE o

DepreciationPctColOfCurrent(dep, prev, pred) ==
    [i \in 1..Len(dep) |->
        RatTimes(FillNaZero(
            IF IsNone(prev[i]) THEN None
            ELSE OptDiv(Some(dep[i]), ReplaceZeroNA(Some(pred[i])))), 100)]

\* lines 133-134
DepreciationPctCol(dep, prev, pred) ==
    [i \in 1..Len(dep) |->
        RatTimes(FillNaZero(OptDiv(Some(dep[i]), ReplaceZeroNA(prev[i]))), 100)]

BaseValLast(pred) == IF Len(pred) > 0 THEN pred[Len(pred)] ELSE << 0, 1 >>

\* line 137
BaseVal(pred) == IF Len(pred) > 0 THEN pred[1] ELSE << 0, 1 >>

\* lines 138-141
AccumDepreciationCol(pred) ==
    LET base_val == BaseVal(pred)
    IN  [i \in 1..Len(pred) |->
            IF ~RatIsZero(base_val)
            THEN RatTimes(RatDiv(RatSub(base_val, pred[i]), base_val), 100)
            ELSE << 0, 1 >>]

\* lines 122-147
DepreciationMetrics(rows) ==
    LET pred  == PredictionCol(rows)
        prev  == Shift(pred)
        dep   == DepreciationCol(prev, pred)
        pct   == DepreciationPctCol(dep, prev, pred)
        accum == AccumDepreciationCol(pred)
    IN  [i \in 1..Len(rows) |->
            [year               |-> rows[i].year,
             km                 |-> rows[i].km,
             prediction         |-> Round2(pred[i]),
             depreciation       |-> Round2(dep[i]),
             depreciation_pct   |-> Round2(pct[i]),
             accum_depreciation |-> Round2(accum[i])]]

CalculateDepreciationMetrics ==
    /\ pc = "metrics"
    /\ df_out' = DepreciationMetrics(df)
    /\ pc' = "metrics_done"
    /\ UNCHANGED << trajVars, years, explicit_kms, avg_per_year, selVars,
                    cmpVars, payloads, raised, df, pipeVars >>

----------------------------------------------------------------------------
(* predictor page: the KPI block *)

RatAdd(a, b) == Rat(a[1] * b[2] + b[1] * a[2], a[2] * b[2])

RECURSIVE RatSum(_)
RatSum(col) == IF col = << >> THEN << 0, 1 >>
               ELSE RatAdd(Head(col), RatSum(Tail(col)))

\* Series.mean(): NaN for an empty Series
Mean(col) == IF col = << >> THEN None
             ELSE Some(RatDiv(RatSum(col), << Len(col), 1 >>))

\* a column of the returned frame: its values are hundredths
Column(rows, name) == [i \in 1..Len(rows) |-> Rat(rows[i][name], 100)]

\* df[df['year'] == 0] and df[df['year'] != 0]
RowsAtYear(rows, y) == SelectSeq(rows, LAMBDA r : r.year = y)
RowsNotAtYear(rows, y) == SelectSeq(rows, LAMBDA r : r.year # y)

MeanExcludingNothing(rows, name) == Mean(Column(rows, name))

\* predictor.py lines 162-164, data_processing.py lines 287-289
MeanExcludingYear0(rows, name) == Mean(Column(RowsNotAtYear(rows, 0), name))

\* predictor.py line 159: .values[0] of an empty selection is an IndexError
KpiRaises(out) == RowsAtYear(out, 0) = << >>

\* predictor.py lines 159-164
KpiValues(out) ==
    [initial_value |-> RowsAtYear(out, 0)[1].prediction,
     avg_drop_pct  |-> MeanExcludingYear0(out, "depreciation_pct"),
     avg_drop_eur  |-> MeanExcludingYear0(out, "depreciation")]

KpiBlock ==
    /\ pc = "metrics_done"
    /\ IF KpiRaises(df_out)
       THEN raised' = "IndexError" /\ kpi' = None
       ELSE raised' = "" /\ kpi' = Some(KpiValues(df_out))
    /\ pc' = "kpi_done"
    /\ UNCHANGED << trajVars, years, explicit_kms, avg_per_year, selVars,
                    cmpVars, payloads, dfVars, error_msg, preds, envVars,
                    gateway_calls, shown, rendered, fuel_series, brand_series,
                    brand_table, run1 >>

\* prices in thousandths: 0, half a cent, a cent and a half, whole euros, and
\* a negative estimate
Prices == {-1000, 0, 5, 15, 1000, 3000}
RowYears == {0, 1}

InitMetrics ==
    /\ pc = "metrics"
    /\ cur_age = 0 /\ cur_km = 0 /\ expected_annual_km = None
    /\ years = << >>
    /\ explicit_kms = None
    /\ avg_per_year = 0
    /\ fuel_type = "" /\ brand = "" /\ segment = "" /\ body_type = ""
    /\ comparison_key = "" /\ comparison_val = ""
    /\ payloads = << >>
    /\ raised = ""
    /\ df \in UNION {[1..n -> [year : RowYears, km : {0}, prediction : Prices]] :
                       n \in 0..MaxRows}
    /\ df_out = << >>
    /\ PipeIdle

NextMetrics == CalculateDepreciationMetrics \/ KpiBlock

SpecMetrics == InitMetrics /\ [][NextMetrics]_vars

----------------------------------------------------------------------------
(* prediction_logic: the three validators *)

MaxBatch == 2

SeqToSet(s) == {s[i] : i \in 1..Len(s)}

\* the orders in which list(set(...)) may enumerate S
Perms(S) ==
    {q \in [1..Cardinality(S) -> S] :
        \A i, j \in 1..Cardinality(S) : (i # j) => (q[i] # q[j])}

\* a message, with the list a message is formatted with
Message(text, fields) == [msg |-> text, fields |-> fields]

\* lines 62-65: the order of the four tests
FieldOrder == << "fuel_type", "brand", "segment", "body_type" >>

\* lines 62-65 for one payload: `not p.get(f)`
MissingOf(p) == SelectSeq(FieldOrder, LAMBDA f : p[f] = "")

\* lines 60-65
RECURSIVE MissingFields(_)
MissingFields(ps) ==
    IF ps = << >> THEN << >>
    ELSE MissingOf(Head(ps)) \o MissingFields(Tail(ps))

ValidatePayloadsNoDedup(ps) ==
    IF ps = << >>
    THEN {Some(Message("Prediction failed: No payloads generated.", << >>))}
    ELSE IF MissingFields(ps) # << >>
         THEN {Some(Message("Prediction could not be made: missing fields",
                            MissingFields(ps)))}
         ELSE {None}

\* lines 57-71: the values validate_payloads may return
ValidatePayloadsResults(ps) ==
    IF ps = << >>
    THEN {Some(Message("Prediction failed: No payloads generated.", << >>))}
    ELSE IF MissingFields(ps) # << >>
         THEN {Some(Message("Prediction could not be made: missing fields", u)) :
                   u \in Perms(SeqToSet(MissingFields(ps)))}
         ELSE {None}

ValidatePayloads ==
    /\ pc = "validate_payloads"
    /\ error_msg' \in ValidatePayloadsResults(payloads)
    /\ pc' = "payloads_validated"
    /\ UNCHANGED << trajVars, years, explicit_kms, avg_per_year, selVars,
                    cmpVars, payloads, raised, dfVars, preds, envVars,
                    outVars >>

ValidateSelectionsAnyOne(ft, br, sg, bt) ==
    IF ft = "" /\ br = "" /\ sg = "" /\ bt = ""
    THEN Some(Message(
        "Please select Fuel type, Brand, Segment and Body type in the sidebar.",
        << >>))
    ELSE None

\* lines 83-86
ValidateSelectionsResult(ft, br, sg, bt) ==
    IF ft = "" \/ br = "" \/ sg = "" \/ bt = ""
    THEN Some(Message(
        "Please select Fuel type, Brand, Segment and Body type in the sidebar.",
        << >>))
    ELSE None

ValidateSelections ==
    /\ pc = "validate_selections"
    /\ error_msg' = ValidateSelectionsResult(fuel_type, brand, segment, body_type)
    /\ pc' = "selections_validated"
    /\ UNCHANGED << trajVars, years, explicit_kms, avg_per_year, selVars,
                    cmpVars, payloads, raised, dfVars, preds, envVars,
                    outVars >>

\* lines 99-105
ValidatePredictionsResult(p, df_base) ==
    IF IsNone(p) \/ Len(Val(p)) = 0
    THEN Some(Message("Prediction failed: model returned no results.", << >>))
    ELSE IF df_base = << >>
    THEN Some(Message("Prediction failed: input data is empty.", << >>))
    ELSE None

ValidatePredictions ==
    /\ pc = "validate_predictions"
    /\ error_msg' = ValidatePredictionsResult(preds, df)
    /\ pc' = "predictions_validated"
    /\ UNCHANGED << trajVars, years, explicit_kms, avg_per_year, selVars,
                    cmpVars, payloads, raised, dfVars, preds, envVars,
                    outVars >>

Categories == {"", "x"}

PayloadBatches ==
    SeqsUpTo([km : {0}, fuel_type : Categories, age : {0}, brand : Categories,
              segment : Categories, body_type : Categories], MaxBatch)

InitValidateIdle ==
    /\ cur_age = 0 /\ cur_km = 0 /\ expected_annual_km = None
    /\ years = << >>
    /\ explicit_kms = None
    /\ avg_per_year = 0
    /\ comparison_key = "" /\ comparison_val = ""
    /\ raised = ""
    /\ df_out = << >>
    /\ error_msg = None
    /\ model = << >>
    /\ all_brands = << >>
    /\ gateway_calls = 0
    /\ shown = << >>
    /\ rendered = << >>
    /\ kpi = None
    /\ fuel_series = << >>
    /\ brand_series = << >>
    /\ brand_table = << >>
    /\ run1 = None
    /\ ProcessIdle

InitValidate ==
    /\ InitValidateIdle
    /\ \/ /\ pc = "validate_payloads"
          /\ payloads \in PayloadBatches
          /\ fuel_type = "" /\ brand = "" /\ segment = "" /\ body_type = ""
          /\ preds = None
          /\ df = << >>
       \/ /\ pc = "validate_selections"
          /\ payloads = << >>
          /\ fuel_type \in Categories /\ brand \in Categories
          /\ segment \in Categories /\ body_type \in Categories
          /\ preds = None
          /\ df = << >>
       \/ /\ pc = "validate_predictions"
          /\ payloads = << >>
          /\ fuel_type = "" /\ brand = "" /\ segment = "" /\ body_type = ""
          /\ preds \in {None} \cup {Some(q) : q \in SeqsUpTo({1000}, MaxBatch)}
          /\ df \in {[i \in 1..n |-> [year |-> i - 1, km |-> 0,
                                      prediction |-> 1000]] : n \in 0..MaxBatch}

NextValidate == ValidatePayloads \/ ValidateSelections \/ ValidatePredictions

SpecValidate == InitValidate /\ [][NextValidate]_vars

----------------------------------------------------------------------------
(* The prediction gateway: inference.predict with the loaded estimator.    *)
(* The estimator is outside the repository: a deterministic function of a  *)
(* record's six fields.  The model draws it from a bounded family: a base   *)
(* price per brand, an offset per fuel type, a loss per year of age and    *)
(* per km (all in thousandths).                                            *)

\* predict.py line 68, one row
PredictRow(est, p) ==
    est.base[p.brand] + est.fuel[p.fuel_type]
        - p.age * est.per_year - p.km * est.per_km

\* predict.py lines 63-68: one price per record, in input order
Predict(est, ps) == [i \in 1..Len(ps) |-> PredictRow(est, ps[i])]

----------------------------------------------------------------------------
(* data_processing.calculate_brand_comparison_data *)

ShortlistSize == 6

\* enough brands for the cut to bite: the selected one, a full shortlist and
\* one brand left out
MaxBrands == ShortlistSize + 2

BrandYearsStop == 11
MilestoneMid == 5
MilestoneEnd == 10

\* sorted(): ascending by .key, equal keys in their given order
RECURSIVE InsertFront(_, _)
InsertFront(x, s) ==
    IF s = << >> \/ x.key <= Head(s).key THEN << x >> \o s
    ELSE << Head(s) >> \o InsertFront(x, Tail(s))

RECURSIVE StableSort(_)
StableSort(s) ==
    IF s = << >> THEN << >> ELSE InsertFront(Head(s), StableSort(Tail(s)))

\* the same sequence, element by element
AsList(s) == SubSeq(s, 1, Len(s))

\* s[:n]
Take(s, n) == SubSeq(s, 1, IF Len(s) < n THEN Len(s) ELSE n)

\* modify_display_name (lines 16-17) on the brands of the model
BrandNames ==
    << "audi", "bmw", "fiat", "ford", "kia", "opel", "seat", "volvo",
       "zaz", "zenvo" >>
DisplayNames ==
    << "Audi", "BMW", "Fiat", "Ford", "KIA", "Opel", "Seat", "Volvo",
       "ZAZ", "Zenvo" >>
ModifyDisplayName(b) ==
    DisplayNames[CHOOSE i \in 1..Len(BrandNames) : BrandNames[i] = b]

\* f"{x:,.0f}" and f"{x:.2f}" of an unrounded value: units, hundredths
Format0(a) == RoundHalfEven(a[1], a[2])
Format2(a) == RoundHalfEven(100 * a[1], a[2])

\* lines 225-234: the age-0 probe of one brand
InitialValue(est, b, ft, sg, bt) ==
    Predict(est, << [km |-> 0, fuel_type |-> ft, age |-> 0, brand |-> b,
                     segment |-> sg, body_type |-> bt] >>)[1]

\* lines 240-244: the other brands with their distance, in dict order
BrandDiffs(est, brands, sel, ft, sg, bt) ==
    LET others == SelectSeq(brands, LAMBDA b : b # sel)
    IN  [i \in 1..Len(others) |->
            [brand |-> others[i],
             key   |-> Abs(InitialValue(est, others[i], ft, sg, bt)
                           - InitialValue(est, sel, ft, sg, bt))]]

ClosestBrandsUnsorted(est, brands, sel, ft, sg, bt) ==
    LET closest == Take(BrandDiffs(est, brands, sel, ft, sg, bt), ShortlistSize)
    IN  [i \in 1..Len(closest) |-> closest[i].brand]

\* lines 247-248
ClosestBrands(est, brands, sel, ft, sg, bt) ==
    LET closest == Take(StableSort(BrandDiffs(est, brands, sel, ft, sg, bt)),
                        ShortlistSize)
    IN  [i \in 1..Len(closest) |-> closest[i].brand]

\* lines 259-279: the trajectory of one brand with its metrics
BrandMetrics(est, b, ft, sg, bt, avg) ==
    LET brand_years    == Range(0, BrandYearsStop)
        brand_payloads == PredictionPayloads(brand_years, ft, b, sg, bt, avg,
                                             None)
        brand_preds    == Predict(est, brand_payloads)
        brand_df       == [i \in 1..Len(brand_years) |->
                              [year       |-> brand_years[i],
                               km         |-> brand_payloads[i].km,
                               prediction |-> brand_preds[i]]]
    IN  AsList(DepreciationMetrics(AsList(brand_df)))

\* lines 283-284
ValueAtYear(out, y) ==
    IF RowsAtYear(out, y) # << >>
    THEN Some(Format0(Rat(RowsAtYear(out, y)[1].prediction, 100)))
    ELSE None

BrandAverageWithYear0(out, name) ==
    IF out # << >> THEN Val(MeanExcludingNothing(out, name)) ELSE << 0, 1 >>

\* lines 287-289
BrandAverage(out, name) ==
    IF RowsNotAtYear(out, 0) # << >>
    THEN Val(MeanExcludingYear0(out, name))
    ELSE << 0, 1 >>

\* lines 282-299
BrandData(est, b, ft, sg, bt, avg) ==
    LET out == BrandMetrics(est, b, ft, sg, bt, avg)
    IN  [Brand      |-> ModifyDisplayName(b),
         initial    |-> Format0(Rat(RowsAtYear(out, 0)[1].prediction, 100)),
         avg_pct    |-> Format2(BrandAverage(out, "depreciation_pct")),
         avg_eur    |-> Format0(BrandAverage(out, "depreciation")),
         value_5    |-> ValueAtYear(out, MilestoneMid),
         value_10   |-> ValueAtYear(out, MilestoneEnd),
         key        |-> -(RowsAtYear(out, 0)[1].prediction)]

\* line 315: item.pop("_initial_val_numeric")
PopSortKey(row) ==
    [Brand |-> row.Brand, initial |-> row.initial, avg_pct |-> row.avg_pct,
     avg_eur |-> row.avg_eur, value_5 |-> row.value_5,
     value_10 |-> row.value_10]

OrderRowsUnsorted(selected_row, other_rows) == << selected_row >> \o other_rows

\* lines 307-311: the others by initial value, highest first (reverse=True
\* keeps equal values in their given order), after the selected brand
OrderRows(selected_row, other_rows) ==
    << selected_row >> \o StableSort(other_rows)

\* lines 221-317
BrandComparisonData(est, brands, sel, ft, sg, bt, avg) ==
    LET closest == AsList(ClosestBrands(est, brands, sel, ft, sg, bt))
        others  == AsList([i \in 1..Len(closest) |->
                       BrandData(est, closest[i], ft, sg, bt, avg)])
        rows    == OrderRows(BrandData(est, sel, ft, sg, bt, avg), others)
    IN  [i \in 1..Len(rows) |-> PopSortKey(rows[i])]

\* the calls of cached_predict_func: one probe per brand (line 233), one
\* trajectory per compared brand (line 271)
BrandComparisonCalls(brands, sel) ==
    LET n == Len(SelectSeq(brands, LAMBDA b : b # sel))
    IN  Len(brands) + 1 + (IF n < ShortlistSize THEN n ELSE ShortlistSize)

CalculateBrandComparisonData ==
    /\ pc = "brand_table"
    /\ brand_table' = BrandComparisonData(model, all_brands, brand, fuel_type,
                                          segment, body_type, avg_per_year)
    /\ gateway_calls' = gateway_calls + BrandComparisonCalls(all_brands, brand)
    /\ pc' = "brand_table_done"
    /\ UNCHANGED << trajVars, years, explicit_kms, avg_per_year, selVars,
                    cmpVars, payloads, raised, dfVars, error_msg, preds,
                    envVars, shown, rendered, kpi, fuel_series, brand_series,
                    run1 >>

BasePrices == {20000, 60000}
FuelOffsets == [diesel |-> 0, gasolina |-> 500]

\* the ways the gateway may fail: an empty result, a result one price short,
\* an exception raised by every call from the raise_from-th of a request on
Faults == {"none", "empty", "short", "raise"}

\* the estimators of the model over the brands bs
Estimators(bs, faults, froms) ==
    {est \in [base       : [bs -> BasePrices],
              fuel       : {FuelOffsets},
              per_year   : {1800},
              per_km     : {1},
              fault      : faults,
              raise_from : froms] :
        est.fault # "raise" => est.raise_from = 1}

InitBrands ==
    /\ pc = "brand_table"
    /\ cur_age = 0 /\ cur_km = 0 /\ expected_annual_km = None
    /\ years = << >>
    /\ explicit_kms = None
    /\ avg_per_year = MaxAvg
    /\ fuel_type = "diesel" /\ segment = "suv" /\ body_type = "berlina"
    /\ comparison_key = "" /\ comparison_val = ""
    /\ payloads = << >>
    /\ raised = ""
    /\ df = << >>
    /\ df_out = << >>
    /\ error_msg = None
    /\ preds = None
    /\ \E n \in 1..MaxBrands :
          /\ all_brands = SubSeq(BrandNames, 1, n)
          /\ model \in Estimators({BrandNames[i] : i \in 1..n}, {"none"}, {1})
          /\ brand \in {BrandNames[i] : i \in 1..n}
    /\ gateway_calls = 0
    /\ shown = << >>
    /\ rendered = << >>
    /\ kpi = None
    /\ fuel_series = << >>
    /\ brand_series = << >>
    /\ brand_table = << >>
    /\ run1 = None
    /\ ProcessIdle

NextBrands == CalculateBrandComparisonData

SpecBrands == InitBrands /\ [][NextBrands]_vars

----------------------------------------------------------------------------
(* pages/predictor.py: one Predict click, lines 84-183, with the chart     *)
(* renderers it calls.  gateway_calls counts the calls of cached_predict   *)
(* in the request, shown the st.error messages, rendered the outputs.      *)

ChartSampleSize == 5

Min(a, b) == IF a < b THEN a ELSE b

\* get_filter_options(): the option lists of the deployment
FuelTypeOptions == << "diesel", "gasolina" >>
BrandOptions == SubSeq(BrandNames, 1, 3)

\* cached_predict (lines 51-58) as the page sees it: of n calls made after
\* `made` earlier ones, does one raise, and how many are made
GatewayRaises(est, made, n) ==
    est.fault = "raise" /\ est.raise_from <= made + n

CallsMadeAll(est, made, n) == n

\* no call follows one that raised
CallsMade(est, made, n) ==
    IF GatewayRaises(est, made, n) THEN est.raise_from - made ELSE n

GatewayResult(est, ps) ==
    IF est.fault = "empty" THEN << >>
    ELSE IF est.fault = "short" THEN Tail(Predict(est, ps))
    ELSE Predict(est, ps)

\* line 183: st.error(f"Error: {exc}")
ExceptionMessage(kind) == Message("Error", << kind >>)

\* the request ends in the handler of line 182
EndsInException(kind) ==
    /\ raised' = kind
    /\ shown' = Append(shown, ExceptionMessage(kind))
    /\ pc' = "done"

\* lines 84-90
ClickPredict ==
    /\ pc = "idle"
    /\ error_msg' = ValidateSelectionsResult(fuel_type, brand, segment, body_type)
    /\ IF ~IsNone(error_msg')
       THEN shown' = Append(shown, Val(error_msg')) /\ pc' = "done"
       ELSE shown' = shown /\ pc' = "page_calc"
    /\ UNCHANGED << trajVars, years, explicit_kms, avg_per_year, selVars,
                    cmpVars, payloads, raised, dfVars, preds, envVars,
                    gateway_calls, rendered, kpi, fuel_series, brand_series,
                    brand_table, run1 >>

\* lines 92-107
PageBuildTrajectory ==
    /\ pc = "page_calc"
    /\ LET avg == AvgPerYear(cur_age, cur_km)
           ys  == YearsAxis(cur_age)
           kms == Some(ExplicitKms(ys, cur_age, cur_km, expected_annual_km, avg))
       IN  /\ avg_per_year' = avg
           /\ years' = ys
           /\ explicit_kms' = kms
           /\ payloads' = PredictionPayloads(ys, fuel_type, brand, segment,
                                             body_type, avg, kms)
    /\ pc' = "page_validate_payloads"
    /\ UNCHANGED << trajVars, selVars, cmpVars, raised, dfVars, pipeVars >>

\* lines 110-113
PageValidatePayloads ==
    /\ pc = "page_validate_payloads"
    /\ error_msg' \in ValidatePayloadsResults(payloads)
    /\ IF ~IsNone(error_msg')
       THEN shown' = Append(shown, Val(error_msg')) /\ pc' = "done"
       ELSE shown' = shown /\ pc' = "page_predict"
    /\ UNCHANGED << trajVars, years, explicit_kms, avg_per_year, selVars,
                    cmpVars, payloads, raised, dfVars, preds, envVars,
                    gateway_calls, rendered, kpi, fuel_series, brand_series,
                    brand_table, run1 >>

\* lines 116-120: pd.DataFrame of columns of equal length
BaseFrame(ys, ps, prices) ==
    [i \in 1..Len(ys) |->
        [year |-> ys[i], km |-> ps[i].km, prediction |-> prices[i]]]

\* lines 115-120: the gateway call, then the frame; columns of different
\* lengths make pd.DataFrame raise ValueError
PagePredict ==
    /\ pc = "page_predict"
    /\ gateway_calls' = gateway_calls + CallsMade(model, gateway_calls, 1)
    /\ IF GatewayRaises(model, gateway_calls, 1)
       THEN /\ EndsInException("GatewayError")
            /\ UNCHANGED << preds, df >>
       ELSE /\ preds' = Some(GatewayResult(model, payloads))
            /\ IF Len(Val(preds')) # Len(years)
               THEN EndsInException("ValueError") /\ df' = df
               ELSE /\ df' = BaseFrame(years, payloads, Val(preds'))
                    /\ pc' = "page_validate_predictions"
                    /\ UNCHANGED << raised, shown >>
    /\ UNCHANGED << trajVars, years, explicit_kms, avg_per_year, selVars,
                    cmpVars, payloads, df_out, error_msg, envVars, rendered,
                    kpi, fuel_series, brand_series, brand_table, run1 >>

\* lines 123-126
PageValidatePredictions ==
    /\ pc = "page_validate_predictions"
    /\ error_msg' = ValidatePredictionsResult(preds, df)
    /\ IF ~IsNone(error_msg')
       THEN shown' = Append(shown, Val(error_msg')) /\ pc' = "done"
       ELSE shown' = shown /\ pc' = "page_metrics"
    /\ UNCHANGED << trajVars, years, explicit_kms, avg_per_year, selVars,
                    cmpVars, payloads, raised, dfVars, preds, envVars,
                    gateway_calls, rendered, kpi, fuel_series, brand_series,
                    brand_table, run1 >>

\* lines 128-134
PageMetrics ==
    /\ pc = "page_metrics"
    /\ df_out' = DepreciationMetrics(df)
    /\ rendered' = Append(rendered, "results_table")
    /\ pc' = "page_value_charts"
    /\ UNCHANGED << trajVars, years, explicit_kms, avg_per_year, selVars,
                    cmpVars, payloads, raised, df, error_msg, preds, envVars,
                    gateway_calls, shown, kpi, fuel_series, brand_series,
                    brand_table, run1 >>

ComparisonYearsFullWindow(out) == Range(0, FullWindowStop)

\* chart_renderers lines 66 and 105: df_out["year"].tolist()
ComparisonYears(out) == [i \in 1..Len(out) |-> out[i].year]

\* visualizations lines 316-335: the rows of one compared value after another
BuildComparisonData(est, ys, vals, key, base, avg, kms) ==
    LET n == Len(ys)
        prices(val) == Predict(est, ComparisonPayloads(ys, key, val, base,
                                                       avg, kms))
    IN  AsList([r \in 1..(Len(vals) * n) |->
            [value      |-> vals[((r - 1) \div n) + 1],
             year       |-> ys[((r - 1) % n) + 1],
             prediction |-> prices(vals[((r - 1) \div n) + 1])[((r - 1) % n) + 1]]])

\* random.sample(candidates, n): every ordered choice of n distinct candidates
Samples(candidates, n) ==
    {q \in [1..n -> SeqToSet(candidates)] :
        \A i, j \in 1..n : (i # j) => (q[i] # q[j])}

\* chart_renderers lines 93-96
PlotBrands(br, candidates) ==
    {IF br # "" THEN << br >> \o sampled ELSE Take(sampled, ChartSampleSize) :
        sampled \in Samples(candidates, Min(ChartSampleSize, Len(candidates)))}

\* line 137, chart_renderers lines 19-115: the vehicle chart, the fuel type
\* tab and the brand tab
RenderValueOverTimeCharts ==
    /\ pc = "page_value_charts"
    /\ \E plot_brands \in
          PlotBrands(brand, SelectSeq(all_brands, LAMBDA b : b # brand)) :
          LET fuel_calls  == IF FuelTypeOptions = << >> THEN 0
                             ELSE Len(FuelTypeOptions)
              brand_calls == IF all_brands = << >> THEN 0 ELSE Len(plot_brands)
              fuel_fails  == GatewayRaises(model, gateway_calls, fuel_calls)
              fails       == GatewayRaises(model, gateway_calls,
                                           fuel_calls + brand_calls)
          IN  /\ gateway_calls' =
                    gateway_calls + CallsMade(model, gateway_calls,
                                              fuel_calls + brand_calls)
              /\ fuel_series' =
                    IF fuel_calls = 0 \/ fuel_fails THEN << >>
                    ELSE BuildComparisonData(model, ComparisonYears(df_out),
                                             FuelTypeOptions, "fuel_type",
                                             BasePayload, avg_per_year,
                                             explicit_kms)
              /\ brand_series' =
                    IF brand_calls = 0 \/ fails THEN << >>
                    ELSE BuildComparisonData(model, ComparisonYears(df_out),
                                             plot_brands, "brand", BasePayload,
                                             avg_per_year, explicit_kms)
              /\ IF fails
                 THEN EndsInException("GatewayError") /\ rendered' = rendered
                 ELSE /\ rendered' = Append(rendered, "value_charts")
                      /\ pc' = "page_depreciation_charts"
                      /\ UNCHANGED << raised, shown >>
    /\ UNCHANGED << trajVars, years, explicit_kms, avg_per_year, selVars,
                    cmpVars, payloads, dfVars, error_msg, preds, envVars,
                    kpi, brand_table, run1 >>

\* line 143
RenderDepreciationCharts ==
    /\ pc = "page_depreciation_charts"
    /\ rendered' = Append(rendered, "depreciation_charts")
    /\ pc' = "page_kpi"
    /\ UNCHANGED << trajVars, years, explicit_kms, avg_per_year, selVars,
                    cmpVars, payloads, raised, dfVars, error_msg, preds,
                    envVars, gateway_calls, shown, kpi, fuel_series,
                    brand_series, brand_table, run1 >>

\* lines 158-169; .values[0] of an empty selection raises IndexError
PageKpi ==
    /\ pc = "page_kpi"
    /\ IF KpiRaises(df_out)
       THEN EndsInException("IndexError") /\ UNCHANGED << kpi, rendered >>
       ELSE /\ kpi' = Some(KpiValues(df_out))
            /\ rendered' = Append(rendered, "kpi")
            /\ pc' = "page_brand_table"
            /\ UNCHANGED << raised, shown >>
    /\ UNCHANGED << trajVars, years, explicit_kms, avg_per_year, selVars,
                    cmpVars, payloads, dfVars, error_msg, preds, envVars,
                    gateway_calls, fuel_series, brand_series, brand_table,
                    run1 >>

\* lines 172-181; the selected brand is one of the options
PageBrandTable ==
    /\ pc = "page_brand_table"
    /\ LET calls == BrandComparisonCalls(all_brands, brand)
       IN  /\ gateway_calls' =
                 gateway_calls + CallsMade(model, gateway_calls, calls)
           /\ IF GatewayRaises(model, gateway_calls, calls)
              THEN /\ EndsInException("GatewayError")
                   /\ UNCHANGED << brand_table, rendered >>
              ELSE /\ brand_table' =
                         BrandComparisonData(model, all_brands, brand,
                                             fuel_type, segment, body_type,
                                             avg_per_year)
                   /\ rendered' = Append(rendered, "brand_table")
                   /\ pc' = "done"
                   /\ UNCHANGED << raised, shown >>
    /\ UNCHANGED << trajVars, years, explicit_kms, avg_per_year, selVars,
                    cmpVars, payloads, dfVars, error_msg, preds, envVars,
                    kpi, fuel_series, brand_series, run1 >>

\* the comparison outputs of a finished request
ComparisonOutputs ==
    [fuel |-> fuel_series, brand |-> brand_series, table |-> brand_table]

\* Predict is clicked a second time with the same sidebar: the script runs
\* again from the top (line 84) and every output of the first run is gone
PredictAgain ==
    /\ pc = "done"
    /\ IsNone(run1)
    /\ run1' = Some(ComparisonOutputs)
    /\ pc' = "idle"
    /\ years' = << >> /\ explicit_kms' = None /\ avg_per_year' = 0
    /\ payloads' = << >> /\ raised' = ""
    /\ df' = << >> /\ df_out' = << >>
    /\ error_msg' = None /\ preds' = None
    /\ gateway_calls' = 0 /\ shown' = << >> /\ rendered' = << >> /\ kpi' = None
    /\ fuel_series' = << >> /\ brand_series' = << >> /\ brand_table' = << >>
    /\ UNCHANGED << trajVars, selVars, cmpVars, envVars >>

\* the sidebar of the model: render_sidebar_filters, ui_components 8-84
PageAges == AgeVals \cup {AgeWindowSplit}

\* the calls of cached_predict in a request that runs to its end: the
\* reference trajectory, the fuel types, the plotted brands, the brand table
RequestCalls ==
    1 + Len(FuelTypeOptions) + Len(BrandOptions)
      + Len(BrandOptions) + 1 + (Len(BrandOptions) - 1)

Init ==
    /\ pc = "idle"
    /\ cur_age \in PageAges
    /\ cur_km = MaxKm
    /\ expected_annual_km \in {None, Some(MaxExpected)}
    /\ years = << >>
    /\ explicit_kms = None
    /\ avg_per_year = 0
    /\ fuel_type \in {"", FuelTypeOptions[1]}
    /\ brand \in {""} \cup SeqToSet(BrandOptions)
    /\ segment \in {"", "suv"}
    /\ body_type \in {"", "berlina"}
    /\ comparison_key = "" /\ comparison_val = ""
    /\ payloads = << >>
    /\ raised = ""
    /\ df = << >>
    /\ df_out = << >>
    /\ error_msg = None
    /\ preds = None
    /\ all_brands = BrandOptions
    /\ model \in Estimators(SeqToSet(BrandOptions), Faults, 1..RequestCalls)
    /\ gateway_calls = 0
    /\ shown = << >>
    /\ rendered = << >>
    /\ kpi = None
    /\ fuel_series = << >>
    /\ brand_series = << >>
    /\ brand_table = << >>
    /\ run1 = None
    /\ ProcessIdle

Next ==
    \/ ClickPredict
    \/ PageBuildTrajectory
    \/ PageValidatePayloads
    \/ PagePredict
    \/ PageValidatePredictions
    \/ PageMetrics
    \/ RenderValueOverTimeCharts
    \/ RenderDepreciationCharts
    \/ PageKpi
    \/ PageBrandTable
    \/ PredictAgain

Spec == Init /\ [][Next]_vars

----------------------------------------------------------------------------
(* src/inference/predict.py: load_model and its process-wide cache *)

MaxReads == 3

ModelPaths == {"p", "q"}

\* what is on disk at a path: nothing, or a file that joblib.load turns
\* into a model ("v1"), that needs a module which is not installed
\* ("nodep"), or that cannot be unpickled ("corrupt")
ArtifactStates == {None, Some("v1"), Some("nodep"), Some("corrupt")}

\* the request variables of a process that serves no request
RequestIdle ==
    /\ cur_age = 0 /\ cur_km = 0 /\ expected_annual_km = None
    /\ years = << >>
    /\ explicit_kms = None
    /\ avg_per_year = 0
    /\ fuel_type = "" /\ brand = "" /\ segment = "" /\ body_type = ""
    /\ comparison_key = "" /\ comparison_val = ""
    /\ payloads = << >>
    /\ raised = ""
    /\ df = << >>
    /\ df_out = << >>
    /\ error_msg = None
    /\ preds = None
    /\ model = << >>
    /\ all_brands = << >>
    /\ gateway_calls = 0
    /\ shown = << >>
    /\ rendered = << >>
    /\ kpi = None
    /\ fuel_series = << >>
    /\ brand_series = << >>
    /\ brand_table = << >>
    /\ run1 = None

\* lines 23-40: how a call of load_model(p) ends
LoadOutcome(p) ==
    IF ~IsNone(_MODEL) /\ _MODEL_PATH = Some(p) THEN "cached"
    ELSE IF IsNone(artifacts[p]) THEN "FileNotFoundError"
    ELSE IF Val(artifacts[p]) = "nodep" THEN "ImportError"
    ELSE IF Val(artifacts[p]) = "corrupt" THEN "UnpicklingError"
    ELSE "loaded"

\* line 30: joblib.load is reached
ReadsArtifact(p) ==
    LoadOutcome(p) \in {"ImportError", "UnpicklingError", "loaded"}

\* line 30: the object joblib.load builds, a new one at every read
LoadedModel(p) ==
    [path |-> p, content |-> Val(artifacts[p]), read |-> Len(reads) + 1]

CacheAfterPathFirst(p) ==
    IF LoadOutcome(p) = "loaded" THEN << Some(LoadedModel(p)), Some(p) >>
    ELSE IF ReadsArtifact(p) THEN << _MODEL, Some(p) >>
    ELSE << _MODEL, _MODEL_PATH >>

\* lines 38-39: the cache after the call
CacheAfter(p) ==
    IF LoadOutcome(p) = "loaded" THEN << Some(LoadedModel(p)), Some(p) >>
    ELSE << _MODEL, _MODEL_PATH >>

\* lines 24, 27, 33, 40: what the call returns or raises
LoadResult(p) ==
    [path    |-> p,
     outcome |-> LoadOutcome(p),
     model   |-> IF LoadOutcome(p) = "cached" THEN _MODEL
                 ELSE IF LoadOutcome(p) = "loaded" THEN Some(LoadedModel(p))
                 ELSE None]

\* lines 14-40
LoadModel(p) ==
    /\ pc = "loader"
    /\ ReadsArtifact(p) => Len(reads) < MaxReads
    /\ returned' = Some(LoadResult(p))
    /\ reads' = IF ReadsArtifact(p)
                THEN Append(reads, [path |-> p, ok |-> LoadOutcome(p) = "loaded"])
                ELSE reads
    /\ _MODEL' = CacheAfter(p)[1]
    /\ _MODEL_PATH' = CacheAfter(p)[2]
    /\ UNCHANGED << pc, trajVars, years, explicit_kms, avg_per_year, selVars,
                    cmpVars, payloads, raised, dfVars, error_msg, preds,
                    model, all_brands, outVars, artifacts, handed, scrapeVars >>

\* the file at a path is written, replaced or removed between two calls
ChangeArtifact(p, st) ==
    /\ pc = "loader"
    /\ artifacts[p] # st
    /\ artifacts' = [artifacts EXCEPT ![p] = st]
    /\ returned' = None
    /\ UNCHANGED << pc, trajVars, years, explicit_kms, avg_per_year, selVars,
                    cmpVars, payloads, raised, dfVars, error_msg, preds,
                    model, all_brands, outVars, _MODEL, _MODEL_PATH, reads,
                    handed, scrapeVars >>

InitLoader ==
    /\ pc = "loader"
    /\ RequestIdle
    /\ _MODEL = None
    /\ _MODEL_PATH = None
    /\ artifacts \in [ModelPaths -> ArtifactStates]
    /\ reads = << >>
    /\ returned = None
    /\ handed = None
    /\ max_pages = 0
    /\ page_number = 0
    /\ requested = << >>
    /\ written = {}

NextLoader ==
    \/ \E p \in ModelPaths : LoadModel(p)
    \/ \E p \in ModelPaths : \E st \in ArtifactStates : ChangeArtifact(p, st)

SpecLoader == InitLoader /\ [][NextLoader]_vars

----------------------------------------------------------------------------
(* src/inference/predict.py: predict and _to_dataframe.  A dict is the     *)
(* list of its (key, value) items in insertion order; a frame has its      *)
(* column labels and, per row, one cell per column (None is NaN).          *)

\* line 66
expected_cols ==
    << "km", "fuel_type", "age", "brand", "segment", "body_type" >>

DictKeys(d) == [i \in 1..Len(d) |-> d[i][1]]

\* d.get(k): the cell of key k, NaN when the dict has no such key
CellOf(d, k) ==
    IF \E i \in 1..Len(d) : d[i][1] = k
    THEN Some(d[CHOOSE i \in 1..Len(d) : d[i][1] = k][2])
    ELSE None

\* the labels of ks that are not in cols yet, appended in their order
RECURSIVE AppendNew(_, _)
AppendNew(cols, ks) ==
    IF ks = << >> THEN cols
    ELSE AppendNew(IF Head(ks) \in SeqToSet(cols) THEN cols
                   ELSE Append(cols, Head(ks)), Tail(ks))

\* pd.DataFrame(list of dicts): the columns are the keys in order of first
\* appearance
RECURSIVE ColumnsInOrder(_, _)
ColumnsInOrder(cols, ds) ==
    IF ds = << >> THEN cols
    ELSE ColumnsInOrder(AppendNew(cols, DictKeys(Head(ds))), Tail(ds))

\* lines 43-49
ToDataFrame(payload) ==
    LET ds   == IF payload.kind = "dict" THEN << payload.data >>
                ELSE payload.data
        cols == ColumnsInOrder(<< >>, ds)
    IN  [columns |-> cols,
         rows    |-> [i \in 1..Len(ds) |->
                        [j \in 1..Len(cols) |-> CellOf(ds[i], cols[j])]]]

ReindexSkipped(frame, cols) == frame

\* line 67: df.reindex(columns=expected_cols)
Reindex(frame, cols) ==
    [columns |-> cols,
     rows    |-> [i \in 1..Len(frame.rows) |->
                    [j \in 1..Len(cols) |->
                        IF \E k \in 1..Len(frame.columns) :
                               frame.columns[k] = cols[j]
                        THEN frame.rows[i][CHOOSE k \in 1..Len(frame.columns) :
                                               frame.columns[k] = cols[j]]
                        ELSE None]]]

\* lines 52-68; load_model as in LoadModel, model.predict gets the table
PredictCall ==
    /\ pc = "predict"
    /\ \E p \in ModelPaths :
          /\ returned' = Some(LoadResult(p))
          /\ reads' = IF ReadsArtifact(p)
                      THEN Append(reads, [path |-> p,
                                          ok |-> LoadOutcome(p) = "loaded"])
                      ELSE reads
          /\ _MODEL' = CacheAfter(p)[1]
          /\ _MODEL_PATH' = CacheAfter(p)[2]
          /\ IF LoadOutcome(p) \in {"cached", "loaded"}
             THEN /\ handed' = Some(Reindex(ToDataFrame(payloads), expected_cols))
                  /\ raised' = ""
             ELSE /\ handed' = None
                  /\ raised' = LoadOutcome(p)
    /\ pc' = "predicted"
    /\ UNCHANGED << trajVars, years, explicit_kms, avg_per_year, selVars,
                    cmpVars, payloads, dfVars, error_msg, preds, model,
                    all_brands, outVars, artifacts, scrapeVars >>

\* the dicts of the model: the builder's key order, the order json.dumps
\* with sort_keys leaves, a dict with a column of its own, a dict with only
\* two of the six keys, the empty dict; every value carries the tag v
DictShapes ==
    { << "km", "fuel_type", "age", "brand", "segment", "body_type" >>,
      << "age", "body_type", "brand", "fuel_type", "km", "segment" >>,
      << "colour", "km", "fuel_type", "age", "brand", "segment", "body_type" >>,
      << "brand", "km" >>,
      << >> }

TaggedDict(shape, v) == [i \in 1..Len(shape) |-> << shape[i], << shape[i], v >> >>]

Dicts == {TaggedDict(shape, v) : shape \in DictShapes, v \in 1..2}

PredictInputs ==
    {[kind |-> "dict", data |-> d] : d \in Dicts}
        \cup {[kind |-> "list", data |-> ds] : ds \in SeqsUpTo(Dicts, MaxBatch)}

InitPredict ==
    /\ pc = "predict"
    /\ cur_age = 0 /\ cur_km = 0 /\ expected_annual_km = None
    /\ years = << >>
    /\ explicit_kms = None
    /\ avg_per_year = 0
    /\ fuel_type = "" /\ brand = "" /\ segment = "" /\ body_type = ""
    /\ comparison_key = "" /\ comparison_val = ""
    /\ payloads \in PredictInputs
    /\ raised = ""
    /\ df = << >>
    /\ df_out = << >>
    /\ error_msg = None
    /\ preds = None
    /\ model = << >>
    /\ all_brands = << >>
    /\ gateway_calls = 0
    /\ shown = << >>
    /\ rendered = << >>
    /\ kpi = None
    /\ fuel_series = << >>
    /\ brand_series = << >>
    /\ brand_table = << >>
    /\ run1 = None
    /\ _MODEL = None
    /\ _MODEL_PATH = None
    /\ artifacts \in [ModelPaths -> {None, Some("v1")}]
    /\ reads = << >>
    /\ returned = None
    /\ handed = None
    /\ max_pages = 0
    /\ page_number = 0
    /\ requested = << >>
    /\ written = {}

NextPredict == PredictCall

SpecPredict == InitPredict /\ [][NextPredict]_vars

----------------------------------------------------------------------------
(* src/scraping/scraper.py: scrape_data *)

MaxPages == 4

\* str(n) of a non-negative int: its decimal digits
RECURSIVE Digits(_)
Digits(n) == IF n < 10 THEN << n >> ELSE Append(Digits(n \div 10), n % 10)

\* str.zfill(width)
RECURSIVE ZFill(_, _)
ZFill(ds, width) == IF Len(ds) >= width THEN ds ELSE ZFill(<< 0 >> \o ds, width)

\* lines 52-55: the text of the URL, piece by piece
PageUrl(base_url, n) ==
    IF n = 1 THEN << base_url >> ELSE << base_url, "&pg=", Digits(n) >>

\* line 139
FileName(n) == << "page_", ZFill(Digits(n), 2), ".html" >>

\* lines 124-135: response.text, which may be empty, or None after a
\* requests.RequestException
FetchResults == {Some("<html>"), Some(""), None}

SavesPageUnlessNone(html_content) == ~IsNone(html_content)

\* line 60: `if html_content:`
SavesPage(html_content) == ~IsNone(html_content) /\ Val(html_content) # ""

\* lines 48-51: the folder is made, the loop is entered or skipped
ScrapeStart ==
    /\ pc = "scrape_start"
    /\ pc' = IF max_pages >= 1 THEN "scrape" ELSE "scraped"
    /\ UNCHANGED << trajVars, years, explicit_kms, avg_per_year, selVars,
                    cmpVars, payloads, raised, dfVars, error_msg, preds,
                    outVars, envVars >>

\* lines 51-65: one turn of the loop
ScrapePage ==
    /\ pc = "scrape"
    /\ page_number' = page_number + 1
    /\ \E html_content \in FetchResults :
          /\ requested' = Append(requested,
                                 [url  |-> PageUrl("base_url", page_number'),
                                  html |-> html_content])
          /\ written' = IF SavesPage(html_content)
                        THEN written \cup {FileName(page_number')}
                        ELSE written
    /\ pc' = IF page_number' < max_pages THEN "scrape" ELSE "scraped"
    /\ UNCHANGED << trajVars, years, explicit_kms, avg_per_year, selVars,
                    cmpVars, payloads, raised, dfVars, error_msg, preds,
                    outVars, model, all_brands, loaderVars, handed,
                    max_pages >>

InitScrape ==
    /\ pc = "scrape_start"
    /\ RequestIdle
    /\ _MODEL = None
    /\ _MODEL_PATH = None
    /\ artifacts = << >>
    /\ reads = << >>
    /\ returned = None
    /\ handed = None
    /\ max_pages \in 0..MaxPages
    /\ page_number = 0
    /\ requested = << >>
    /\ written = {}

NextScrape == ScrapeStart \/ ScrapePage

SpecScrape == InitScrape /\ [][NextScrape]_vars

----------------------------------------------------------------------------
(* The key of cached_predict: json.dumps(payloads, sort_keys=True) and the
   model path *)

\* data_processing lines 103-110: the keys of a trajectory payload, in the
\* order the dict literal inserts them
PredictionPayloadKeys ==
    << "km", "fuel_type", "age", "brand", "segment", "body_type" >>

\* chart_renderers lines 59-64, visualizations lines 320-328: the keys of the
\* copied base payload, then km and age; the compared key is already there
ComparisonPayloadKeys ==
    << "fuel_type", "brand", "segment", "body_type", "km", "age" >>

\* the six key strings in the order sorted() puts them
KeyOrder == << "age", "body_type", "brand", "fuel_type", "km", "segment" >>

\* sort_keys=True
SortKeys(keys) ==
    SelectSeq(KeyOrder, LAMBDA k : \E j \in 1..Len(keys) : keys[j] = k)

\* json.dumps of one dict whose keys are written in the order ks
JsonObject(p, ks) == AsList([j \in 1..Len(ks) |-> << ks[j], p[ks[j]] >>])

JsonDumpsUnsorted(ps, keys) ==
    AsList([i \in 1..Len(ps) |-> JsonObject(ps[i], keys)])

\* predictor line 115, visualizations line 331
JsonDumps(ps, keys) ==
    AsList([i \in 1..Len(ps) |-> JsonObject(ps[i], SortKeys(keys))])

\* config line 7, predictor lines 115 and 139: str(MODEL_PATH)
MODEL_PATH == "models/2026-02-03/auto_ml_sklearn.pkl"

\* predictor lines 51-58: st.cache_data keys a call by its two arguments
CacheKey(payloads_json, model_path) == << payloads_json, model_path >>

----------------------------------------------------------------------------
(* Properties of calculate_years_and_kms, checked under SpecTraj *)

\* k is Python's round(n / d), d > 0: a nearest integer, the even one on a tie
IsPyRound(k, n, d) ==
    /\ 2 * Abs(k * d - n) <= d
    /\ (2 * Abs(k * d - n) = d) => (k % 2 = 0)

StrictlyIncreasing(s) == \A i \in 1..(Len(s) - 1) : s[i] < s[i + 1]

\* C1: the age axis is 0..10 (11 points) for every current_age < 10 and
\* current_age..current_age+3 (4 points) for every current_age >= 10 (so 9
\* gives 0..10 and 10 gives 10..13); the ages are strictly increasing and the
\* km list is as long as the age list.
C1_AgeAxis ==
    pc = "calc_done" =>
        /\ (cur_age < 10) => years = << 0, 1, 2, 3, 4, 5, 6, 7, 8, 9, 10 >>
        /\ (cur_age >= 10) =>
               years = << cur_age, cur_age + 1, cur_age + 2, cur_age + 3 >>
        /\ StrictlyIncreasing(years)
        /\ ~IsNone(explicit_kms)
        /\ Len(Val(explicit_kms)) = Len(years)

C1_Witness ==
    /\ pc = "calc_done"
    /\ cur_age = 10
    /\ years = << 10, 11, 12, 13 >>
    /\ Len(Val(explicit_kms)) = 4

\* C2: for current_age > 0 the returned avg_km_per_year is
\* round(current_km / current_age), the nearest integer; for current_age = 0
\* it is current_km.
C2_AvgIsNearestInteger ==
    pc = "calc_done" =>
        IF cur_age > 0
        THEN 2 * Abs(avg_per_year * cur_age - cur_km) <= cur_age
        ELSE avg_per_year = cur_km

\* C3: for every age y of the axis with y <= current_age and current_age > 0,
\* km(y) = round(y * current_km / current_age), with or without
\* expected_annual_km; so the point at y = current_age carries exactly
\* current_km and age 0 carries km 0.
C3_PastKmOnAnchorLine ==
    (pc = "calc_done" /\ cur_age > 0) =>
        \A i \in 1..Len(years) :
            (years[i] <= cur_age) =>
                /\ IsPyRound(Val(explicit_kms)[i], years[i] * cur_km, cur_age)
                /\ (years[i] = cur_age) => Val(explicit_kms)[i] = cur_km
                /\ (years[i] = 0) => Val(explicit_kms)[i] = 0

C3_Witness ==
    /\ pc = "calc_done"
    /\ cur_age = 3 /\ cur_km = 5
    /\ ~IsNone(expected_annual_km)
    /\ Val(explicit_kms)[1] = 0
    /\ Val(explicit_kms)[2] = 2
    /\ Val(explicit_kms)[3] = 3
    /\ Val(explicit_kms)[4] = 5

\* C4: with expected_annual_km given, every age y > current_age of the axis
\* gets km(y) = current_km + (y - current_age) * expected_annual_km, and every
\* age y <= current_age keeps the value it has without the override.
C4_OverrideOnlyAfterCurrentAge ==
    (pc = "calc_done" /\ ~IsNone(expected_annual_km)) =>
        \A i \in 1..Len(years) :
            IF years[i] > cur_age
            THEN Val(explicit_kms)[i] =
                     cur_km + (years[i] - cur_age) * Val(expected_annual_km)
            ELSE /\ Val(explicit_kms)[i] =
                        ExplicitKms(years, cur_age, cur_km, None,
                                    avg_per_year)[i]
                 /\ (cur_age > 0) =>
                        IsPyRound(Val(explicit_kms)[i], years[i] * cur_km,
                                  cur_age)

C4_Witness ==
    /\ pc = "calc_done"
    /\ cur_age = 2 /\ cur_km = 5 /\ expected_annual_km = Some(2)
    /\ Val(explicit_kms)[2] = 2
    /\ Val(explicit_kms)[3] = 5
    /\ Val(explicit_kms)[6] = 11

\* C5: without expected_annual_km and with current_age > 0, every age y of the
\* axis, beyond current_age too, has km(y) = round(y * current_km /
\* current_age): one line through the origin and the anchor.
C5_FutureOnAnchorLine ==
    (pc = "calc_done" /\ IsNone(expected_annual_km) /\ cur_age > 0) =>
        \A i \in 1..Len(years) :
            IsPyRound(Val(explicit_kms)[i], years[i] * cur_km, cur_age)

----------------------------------------------------------------------------
(* Properties of the payload builder, checked under SpecPayloads *)

\* C6: build_prediction_payloads rejects explicit_kms whose length differs
\* from the age list: it fails with a shape-mismatch error and returns no
\* payloads, instead of truncating or falling back to avg_km_per_year.
C6_MismatchRejected ==
    (/\ pc = "built"
     /\ ~IsNone(explicit_kms)
     /\ Len(Val(explicit_kms)) # Len(years)) =>
        /\ raised = "ShapeMismatch"
        /\ payloads = << >>

----------------------------------------------------------------------------
(* Properties of calculate_depreciation_metrics, checked under SpecMetrics. *)
(* Input prices are in thousandths, returned columns in hundredths: the    *)
(* returned columns are the stated quantities after DataFrame.round(2).    *)

\* c hundredths is n / d rounded to 2 decimals: no hundredth is nearer
IsRounded2(c, n, d) == 2 * Abs(c * d - 100 * n) <= Abs(d)

\* C7: for every non-empty price trajectory (any values, 0 included) the
\* first returned row has depreciation = 0, depreciation_pct = 0 and
\* accum_depreciation = 0.
C7_FirstRowZero ==
    (pc = "metrics_done" /\ Len(df) > 0) =>
        /\ Len(df_out) = Len(df)
        /\ df_out[1].depreciation = 0
        /\ df_out[1].depreciation_pct = 0
        /\ df_out[1].accum_depreciation = 0

C7_Witness ==
    /\ pc = "metrics_done"
    /\ Len(df) = 3
    /\ df[1].prediction = 3000 /\ df[2].prediction = 1000
    /\ df_out[1].depreciation = 0
    /\ df_out[2].depreciation = 200

\* C8: for every row i > 0, depreciation[i] = value[i-1] - value[i] (negative
\* when the price rises), on the rows in the order given, not re-sorted by age.
C8_DepreciationIsDrop ==
    pc = "metrics_done" =>
        /\ Len(df_out) = Len(df)
        /\ \A i \in 1..Len(df) :
               /\ df_out[i].year = df[i].year
               /\ df_out[i].km = df[i].km
        /\ \A i \in 2..Len(df) :
               LET drop == df[i - 1].prediction - df[i].prediction
               IN  /\ IsRounded2(df_out[i].depreciation, drop, 1000)
                   /\ (drop % 10 = 0) => df_out[i].depreciation * 10 = drop
                   /\ (drop < 0) => df_out[i].depreciation <= 0

C8_Witness ==
    /\ pc = "metrics_done"
    /\ Len(df) = 3
    /\ df[1].year = 1 /\ df[2].year = 0 /\ df[3].year = 1
    /\ df[1].prediction = 1000 /\ df[2].prediction = 3000
    /\ df[3].prediction = 0
    /\ df_out[2].depreciation = -200
    /\ df_out[3].depreciation = 300

\* C9: for every row i > 0, depreciation_pct[i] = depreciation[i] /
\* value[i-1] * 100, and it is 0 (no error, infinity or null) whenever
\* value[i-1] = 0.
C9_DepreciationPct ==
    pc = "metrics_done" =>
        \A i \in 2..Len(df) :
            LET prev == df[i - 1].prediction
                drop == df[i - 1].prediction - df[i].prediction
            IN  /\ df_out[i].depreciation_pct \in Int
                /\ (prev = 0) => df_out[i].depreciation_pct = 0
                /\ (prev # 0) =>
                       IsRounded2(df_out[i].depreciation_pct, 100 * drop, prev)

C9_Witness ==
    /\ pc = "metrics_done"
    /\ Len(df) = 3
    /\ df[1].prediction = 3000 /\ df[2].prediction = 0
    /\ df[3].prediction = 1000
    /\ df_out[2].depreciation_pct = 10000
    /\ df_out[3].depreciation_pct = 0
    /\ df_out[3].depreciation = -100

\* C10: for every row i, accum_depreciation[i] = (value[0] - value[i]) /
\* value[0] * 100, and every row's accum_depreciation is 0 when value[0] = 0.
C10_AccumDepreciation ==
    (pc = "metrics_done" /\ Len(df) > 0) =>
        \A i \in 1..Len(df) :
            LET base == df[1].prediction
            IN  /\ (base = 0) => df_out[i].accum_depreciation = 0
                /\ (base # 0) =>
                       IsRounded2(df_out[i].accum_depreciation,
                                  100 * (base - df[i].prediction), base)

C10_Witness ==
    /\ pc = "metrics_done"
    /\ Len(df) = 3
    /\ df[1].prediction = 3000 /\ df[2].prediction = 1000
    /\ df[3].prediction = 0
    /\ df_out[2].accum_depreciation = 6667
    /\ df_out[3].accum_depreciation = 10000

----------------------------------------------------------------------------
(* Properties of the validators, checked under SpecValidate *)

EmptyFieldsOf(ps) ==
    {f \in SeqToSet(FieldOrder) : \E i \in 1..Len(ps) : ps[i][f] = ""}

\* C18: validate_payloads returns success iff the batch is non-empty and every
\* payload has all four categorical fields non-empty; otherwise the error
\* names exactly the fields that are empty in at least one payload of the
\* batch, each field once.
C18_PayloadValidation ==
    pc = "payloads_validated" =>
        /\ IsNone(error_msg) <=>
               (payloads # << >> /\ EmptyFieldsOf(payloads) = {})
        /\ ~IsNone(error_msg) =>
               /\ SeqToSet(Val(error_msg).fields) = EmptyFieldsOf(payloads)
               /\ Len(Val(error_msg).fields) =
                      Cardinality(EmptyFieldsOf(payloads))

C18_Witness ==
    /\ pc = "payloads_validated"
    /\ Len(payloads) = 2
    /\ payloads[1].brand = "" /\ payloads[1].segment = "x"
    /\ payloads[1].fuel_type = "" /\ payloads[1].body_type = "x"
    /\ payloads[2].brand = "" /\ payloads[2].segment = ""
    /\ payloads[2].fuel_type = "x" /\ payloads[2].body_type = "x"
    /\ ~IsNone(error_msg)
    /\ Val(error_msg).fields = << "segment", "fuel_type", "brand" >>

----------------------------------------------------------------------------
(* Properties of the KPI block, checked under SpecMetrics *)

\* the rows of df whose year is not 0, by index
IndicesNotAtYear0 ==
    SelectSeq([i \in 1..Len(df) |-> i], LAMBDA i : df[i].year # 0)

\* the depreciation columns of df before DataFrame.round(2)
FullDepreciation ==
    DepreciationCol(Shift(PredictionCol(df)), PredictionCol(df))
FullDepreciationPct ==
    DepreciationPctCol(FullDepreciation, Shift(PredictionCol(df)),
                       PredictionCol(df))

\* C11: rounding to 2 decimals is for presentation only: the KPI averages of
\* the annual depreciation (% and currency) are computed from the
\* full-precision depreciation values, not from the values rounded to 2
\* decimals.
C11_AveragesFromFullPrecision ==
    (pc = "kpi_done" /\ ~IsNone(kpi)) =>
        /\ Val(kpi).avg_drop_pct =
               Mean([k \in 1..Len(IndicesNotAtYear0) |->
                        FullDepreciationPct[IndicesNotAtYear0[k]]])
        /\ Val(kpi).avg_drop_eur =
               Mean([k \in 1..Len(IndicesNotAtYear0) |->
                        FullDepreciation[IndicesNotAtYear0[k]]])

----------------------------------------------------------------------------
(* Properties of calculate_brand_comparison_data, checked under SpecBrands *)

OtherBrands == {b \in SeqToSet(all_brands) : b # brand}

\* the brand a row of the table stands for
BrandOfRow(row) ==
    CHOOSE b \in SeqToSet(all_brands) : ModifyDisplayName(b) = row.Brand

KeptBrands == {BrandOfRow(brand_table[i]) : i \in 2..Len(brand_table)}

\* age-0 price of a brand as the gateway gives it (thousandths)
Age0Price(b) == InitialValue(model, b, fuel_type, segment, body_type)

Distance(b) == Abs(Age0Price(b) - Age0Price(brand))

Position(b) == CHOOSE i \in 1..Len(all_brands) : all_brands[i] = b

\* C12: among the brands other than the selected one, exactly
\* min(6, number of other brands) are kept; no brand left out is strictly
\* closer in age-0 price to the selected brand than a kept one, and of two
\* brands at the same distance the one appearing first in all_brands is
\* taken first.
C12_SixNearestKept ==
    pc = "brand_table_done" =>
        /\ KeptBrands \subseteq OtherBrands
        /\ Len(brand_table) = 1 + Min(6, Cardinality(OtherBrands))
        /\ Cardinality(KeptBrands) = Min(6, Cardinality(OtherBrands))
        /\ \A k \in KeptBrands : \A o \in OtherBrands \ KeptBrands :
              \/ Distance(k) < Distance(o)
              \/ Distance(k) = Distance(o) /\ Position(k) < Position(o)

\* a brand is left out that ties with a kept brand, and a kept brand nearer
\* than the one left out appears after it in all_brands
C12_Witness ==
    /\ pc = "brand_table_done"
    /\ Cardinality(OtherBrands) > 6
    /\ \E k \in KeptBrands : \E o \in OtherBrands \ KeptBrands :
          Distance(k) = Distance(o)
    /\ \E k \in KeptBrands : \E o \in OtherBrands \ KeptBrands :
          Distance(k) < Distance(o) /\ Position(k) > Position(o)

\* the brands ranked among the six nearest
Shortlisted ==
    {b \in OtherBrands :
        Cardinality({o \in OtherBrands :
            \/ Distance(o) < Distance(b)
            \/ Distance(o) = Distance(b) /\ Position(o) < Position(b)}) < 6}

\* age-0 price of a brand's trajectory as its metrics return it (hundredths)
Age0PriceRounded(b) == RoundHalfEven(Age0Price(b), 10)

\* C13: the first row is the selected brand, every shortlisted brand has
\* exactly one row, and the rows after the first are in non-increasing
\* order of age-0 price.
C13_SelectedFirstOthersDescending ==
    pc = "brand_table_done" =>
        /\ Len(brand_table) >= 1
        /\ brand_table[1].Brand = ModifyDisplayName(brand)
        /\ Len(brand_table) = 1 + Cardinality(Shortlisted)
        /\ \A b \in Shortlisted \cup {brand} :
              Cardinality({i \in 1..Len(brand_table) :
                  brand_table[i].Brand = ModifyDisplayName(b)}) = 1
        /\ \A i \in 2..(Len(brand_table) - 1) :
              Age0PriceRounded(BrandOfRow(brand_table[i]))
                  >= Age0PriceRounded(BrandOfRow(brand_table[i + 1]))

\* the shortlist came out of the distance ranking with a cheaper brand before
\* a dearer one, and the selected brand is not the dearest
C13_Witness ==
    /\ pc = "brand_table_done"
    /\ Len(brand_table) >= 4
    /\ \E b \in KeptBrands : Age0Price(b) > Age0Price(brand)
    /\ LET closest == ClosestBrands(model, all_brands, brand, fuel_type,
                                    segment, body_type)
       IN  \E i, j \in 1..Len(closest) :
              i < j /\ Age0Price(closest[i]) < Age0Price(closest[j])

\* the trajectory of a brand over ages 0..10 with its metrics
OwnMetrics(b) ==
    LET price(y) == PredictRow(model,
                        [km |-> y * avg_per_year, fuel_type |-> fuel_type,
                         age |-> y, brand |-> b, segment |-> segment,
                         body_type |-> body_type])
    IN  AsList(DepreciationMetrics(AsList(
            [i \in 1..11 |->
                [year |-> i - 1, km |-> (i - 1) * avg_per_year,
                 prediction |-> price(i - 1)]])))

\* the sum of a column over ages 1..10, divided by their number
MeanOverAges1To10(out, name) ==
    RatDiv(RatSum([k \in 1..10 |-> Rat(out[k + 1][name], 100)]), << 10, 1 >>)

\* C14: every row reports the mean of its brand's own yearly depreciation
\* (percentage and currency) over the ages 1..10 of the brand's trajectory,
\* and the brand's values at ages 5 and 10 of that trajectory.
C14_SummaryFromOwnTrajectory ==
    pc = "brand_table_done" =>
        \A i \in 1..Len(brand_table) :
            LET out == OwnMetrics(BrandOfRow(brand_table[i]))
            IN  /\ brand_table[i].avg_pct
                      = Format2(MeanOverAges1To10(out, "depreciation_pct"))
                /\ brand_table[i].avg_eur
                      = Format0(MeanOverAges1To10(out, "depreciation"))
                /\ brand_table[i].value_5
                      = Some(Format0(Rat(out[6].prediction, 100)))
                /\ brand_table[i].value_10
                      = Some(Format0(Rat(out[11].prediction, 100)))

\* a table of several brands whose rows differ in their averages
C14_Witness ==
    /\ pc = "brand_table_done"
    /\ Len(brand_table) >= 3
    /\ \E i, j \in 1..Len(brand_table) :
          /\ brand_table[i].avg_pct # brand_table[j].avg_pct
          /\ brand_table[i].avg_pct > 0
          /\ brand_table[i].value_10 # brand_table[j].value_10

----------------------------------------------------------------------------
(* Properties of the request pipeline, checked under Spec *)

\* the values compared in a series, and the ages of one of them in row order
SeriesValues(series) == {series[i].value : i \in 1..Len(series)}
SeriesYears(series, val) ==
    LET rows == SelectSeq(series, LAMBDA r : r.value = val)
    IN  [i \in 1..Len(rows) |-> rows[i].year]

C16_RerunIdentical ==
    (pc = "done" /\ ~IsNone(run1) /\ raised = "" /\ IsNone(error_msg)) =>
        Val(run1) = ComparisonOutputs

AnySelectionEmpty ==
    fuel_type = "" \/ brand = "" \/ segment = "" \/ body_type = ""

MissingSelectionMessage ==
    Message("Please select Fuel type, Brand, Segment and Body type in the sidebar.",
            << >>)

\* C17: with an empty fuel type, brand, segment or body type the gateway is
\* never called in the request and the request ends with the
\* missing-selection error alone; with all four chosen validate_selections
\* returns None.
C17_MissingSelectionStopsRequest ==
    /\ AnySelectionEmpty =>
          /\ gateway_calls = 0
          /\ pc \in {"idle", "done"}
          /\ pc = "done" =>
                /\ shown = << MissingSelectionMessage >>
                /\ rendered = << >>
    /\ (~AnySelectionEmpty /\ pc # "idle") =>
          ValidateSelectionsResult(fuel_type, brand, segment, body_type) = None
    /\ (~AnySelectionEmpty /\ pc = "page_calc") => IsNone(error_msg)

\* a request with only the brand missing has ended
C17_Witness ==
    /\ pc = "done"
    /\ brand = "" /\ fuel_type # "" /\ segment # "" /\ body_type # ""
    /\ shown = << MissingSelectionMessage >>

EmptyPredictionMessage ==
    Message("Prediction failed: model returned no results.", << >>)

\* C19: when the gateway returns an empty result for a non-empty trajectory
\* the request shows the "model returned no results" error and renders
\* neither table nor chart.
C19_EmptyResultReported ==
    (pc = "done" /\ payloads # << >> /\ preds = Some(<< >>)) =>
        /\ shown = << EmptyPredictionMessage >>
        /\ rendered = << >>

\* C20: a gateway result that is not empty but has not one price per point
\* of the trajectory ends the request with the empty-prediction error, and
\* no metrics are computed from it.
C20_LengthMismatchRejected ==
    (pc = "done" /\ ~IsNone(preds) /\ Val(preds) # << >>
        /\ Len(Val(preds)) # Len(years)) =>
        /\ shown = << EmptyPredictionMessage >>
        /\ df_out = << >>
        /\ IsNone(kpi)

----------------------------------------------------------------------------
(* Properties of load_model, checked under SpecLoader *)

\* the first read of path p that produced a model, 0 when there is none
FirstGoodRead(p) ==
    IF \E i \in 1..Len(reads) : reads[i].path = p /\ reads[i].ok
    THEN CHOOSE i \in 1..Len(reads) :
            /\ reads[i].path = p /\ reads[i].ok
            /\ \A j \in 1..(i - 1) : ~(reads[j].path = p /\ reads[j].ok)
    ELSE 0

\* C21: once load_model(p) has succeeded, the artifact at p is never read
\* again and every later load_model(p) returns the model of that first
\* load, whatever other paths were loaded in between.
C21_CachedPerPath ==
    /\ \A i, j \in 1..Len(reads) :
          (i < j /\ reads[i].ok) => reads[j].path # reads[i].path
    /\ (~IsNone(returned) /\ ~IsNone(Val(returned).model)) =>
          Val(Val(returned).model).read = FirstGoodRead(Val(returned).path)

\* C22: a load_model(p) call made while no file exists at p ends in the
\* model-not-found error, whatever the cache holds.
C22_MissingFileIsError ==
    (~IsNone(returned) /\ IsNone(artifacts[Val(returned).path])) =>
        Val(returned).outcome = "FileNotFoundError"

LoadFailed ==
    ~IsNone(returned)
        /\ Val(returned).outcome \in
              {"FileNotFoundError", "ImportError", "UnpicklingError"}

CacheConsistent ==
    \/ IsNone(_MODEL) /\ IsNone(_MODEL_PATH)
    \/ ~IsNone(_MODEL) /\ _MODEL_PATH = Some(Val(_MODEL).path)

\* C26: a load_model call that fails leaves _MODEL and _MODEL_PATH as they
\* were, and in every state the two are both unset or _MODEL is the model
\* loaded from _MODEL_PATH.
C26_FailedLoadKeepsCache ==
    /\ []CacheConsistent
    /\ [][LoadFailed' => UNCHANGED << _MODEL, _MODEL_PATH >>]_vars

\* a load has failed after a reading of the file while another path's model
\* is cached
C26_Witness ==
    /\ ~IsNone(returned)
    /\ Val(returned).outcome \in {"ImportError", "UnpicklingError"}
    /\ ~IsNone(_MODEL)
    /\ _MODEL_PATH # Some(Val(returned).path)


AllOutputs ==
    << "results_table", "value_charts", "depreciation_charts", "kpi",
       "brand_table" >>

\* C23: a finished request has rendered either all of its outputs (results
\* table, value charts, depreciation charts, KPI metrics, brand comparison
\* table) and no error, or none of them and an error; stated here for a
\* gateway that answers every call.
C23_NoPartialResults ==
    (pc = "done" /\ model.fault = "none") =>
        \/ rendered = AllOutputs /\ shown = << >>
        \/ rendered = << >> /\ shown # << >>

\* C24: once a gateway call has raised in a request, no further gateway
\* call is made, exactly one error message is shown, and the request has
\* ended inside the page, which can be run again.
C24_NoRetry ==
    raised = "GatewayError" =>
        /\ pc = "done"
        /\ gateway_calls = model.raise_from
        /\ shown = << ExceptionMessage("GatewayError") >>
        /\ IsNone(run1) => ENABLED PredictAgain

\* the gateway raised in a call after the reference trajectory's, with
\* outputs already rendered
C24_Witness ==
    /\ raised = "GatewayError"
    /\ model.raise_from > 1
    /\ gateway_calls = model.raise_from
    /\ rendered # << >>

----------------------------------------------------------------------------
(* Properties of predict, checked under SpecPredict *)

\* the records of the input, in input order
InputRecords ==
    IF payloads.kind = "dict" THEN << payloads.data >> ELSE payloads.data

\* C25: the table handed to the model has exactly the columns km,
\* fuel_type, age, brand, segment, body_type in that order and one row per
\* input record in input order; a cell holds the record's value for the
\* column, or null when the record has no such key, so columns outside the
\* six are dropped and a column no record has is all null; once the model
\* is loaded no error is raised on the way.
C25_SixColumnsInOrder ==
    (pc = "predicted" /\ Val(returned).outcome \in {"cached", "loaded"}) =>
        /\ raised = ""
        /\ ~IsNone(handed)
        /\ Val(handed).columns
              = << "km", "fuel_type", "age", "brand", "segment", "body_type" >>
        /\ Len(Val(handed).rows) = Len(InputRecords)
        /\ \A i \in 1..Len(InputRecords) :
              /\ Len(Val(handed).rows[i]) = 6
              /\ \A j \in 1..6 :
                    Val(handed).rows[i][j]
                        = CellOf(InputRecords[i], Val(handed).columns[j])

\* two records were handed on, the first with a column of its own, the
\* second without most of the six
C25_Witness ==
    /\ pc = "predicted"
    /\ ~IsNone(handed)
    /\ payloads.kind = "list"
    /\ Len(payloads.data) = 2
    /\ "colour" \in SeqToSet(DictKeys(payloads.data[1]))
    /\ Len(payloads.data[2]) = 2
    /\ Val(handed).rows[2][3] = None
    /\ Val(handed).rows[1][3] # None

----------------------------------------------------------------------------
(* Properties of scrape_data, checked under SpecScrape *)

\* C27: the pages 1..max_pages are requested in increasing order, each
\* once (page 1 at base_url, page n > 1 at base_url&pg=n); a fetch that
\* fails is not repeated and the loop goes on to the later pages; the file
\* page_NN.html exists iff the fetch of page NN returned non-empty content;
\* the loop ends after max_pages requests.
C27_PagesInOrderOnce ==
    /\ Len(requested) <= max_pages
    /\ \A n \in 1..Len(requested) :
          requested[n].url =
              (IF n = 1 THEN << "base_url" >>
               ELSE << "base_url", "&pg=", Digits(n) >>)
    /\ \A n \in 1..MaxPages :
          (<< "page_", (IF n < 10 THEN << 0, n >> ELSE Digits(n)), ".html" >>
               \in written)
            <=> /\ n <= Len(requested)
                /\ requested[n].html # None
                /\ requested[n].html # Some("")
    /\ pc = "scraped" <=> (pc # "scrape_start" /\ Len(requested) = max_pages)

\* the loop has ended after a failed fetch, an empty page and a saved page
C27_Witness ==
    /\ pc = "scraped"
    /\ Len(requested) >= 3
    /\ requested[1].html = None
    /\ requested[2].html = Some("")
    /\ requested[3].html = Some("<html>")
    /\ written = {<< "page_", << 0, 3 >>, ".html" >>}

----------------------------------------------------------------------------
(* A further property of calculate_years_and_kms, checked under SpecTraj *)

\* C28: the km list is non-negative and never decreases along the age
\* axis, across current_age too.
C28_KmNonDecreasing ==
    pc = "calc_done" =>
        /\ \A i \in 1..Len(years) : Val(explicit_kms)[i] >= 0
        /\ \A i \in 1..(Len(years) - 1) :
              Val(explicit_kms)[i] <= Val(explicit_kms)[i + 1]


PayloadValidationMessages ==
    {"Prediction failed: No payloads generated.",
     "Prediction could not be made: missing fields"}

\* C29: once validate_selections has succeeded, the payload list of the
\* request has 4 or 11 records that copy the four non-empty selections,
\* validate_payloads returns None, no payload-validation error is ever shown,
\* and the gateway is called.
C29_PayloadsAlwaysValid ==
    /\ pc = "page_validate_payloads" =>
          /\ Len(payloads) \in {ForwardWindowLen, FullWindowStop}
          /\ \A i \in 1..Len(payloads) :
                /\ payloads[i].fuel_type = fuel_type /\ fuel_type # ""
                /\ payloads[i].brand = brand /\ brand # ""
                /\ payloads[i].segment = segment /\ segment # ""
                /\ payloads[i].body_type = body_type /\ body_type # ""
          /\ ValidatePayloadsResults(payloads) = {None}
    /\ \A i \in 1..Len(shown) : shown[i].msg \notin PayloadValidationMessages
    /\ (~AnySelectionEmpty /\ pc = "done") => gateway_calls >= 1

\* validate_payloads has passed a forward-window trajectory on to the gateway
C29_Witness ==
    /\ pc = "page_predict"
    /\ IsNone(error_msg)
    /\ Len(payloads) = ForwardWindowLen
    /\ gateway_calls = 0


\* the payloads build_comparison_data sends for one candidate of the request
CandidatePayloads(key, val) ==
    AsList(ComparisonPayloads(ComparisonYears(df_out), key, val, BasePayload,
                              avg_per_year, explicit_kms))

CandidateKey(key, val) ==
    CacheKey(JsonDumps(CandidatePayloads(key, val), ComparisonPayloadKeys),
             MODEL_PATH)

MainKey == CacheKey(JsonDumps(payloads, PredictionPayloadKeys), MODEL_PATH)

\* the prices a comparison series holds for one candidate, in row order
SeriesPrices(series, val) ==
    LET rows == SelectSeq(series, LAMBDA r : r.value = val)
    IN  AsList([i \in 1..Len(rows) |-> rows[i].prediction])

SeriesCandidates(series) == {series[i].value : i \in 1..Len(series)}

OwnCandidateMatches(series, key, own) ==
    /\ own \in SeriesCandidates(series)
    /\ CandidatePayloads(key, own) = AsList(payloads)
    /\ CandidateKey(key, own) = MainKey
    /\ SeriesPrices(series, own) = AsList(Val(preds))

OtherCandidatesDiffer(series, key, own) ==
    \A v \in SeriesCandidates(series) \ {own} :
        /\ \A i \in 1..Len(payloads) :
              CandidatePayloads(key, v)[i] = [payloads[i] EXCEPT ![key] = v]
        /\ CandidateKey(key, v) # MainKey

\* C30: in the comparison series of a request the candidate equal to the
\* user's own fuel type or brand is sent with the payload list of the main
\* trajectory, record for record, so under the same cache key, and its prices
\* are the main results; every other candidate's payloads differ from the
\* main ones in the compared field only.
C30_OwnCandidateIsMainTrajectory ==
    /\ fuel_series # << >> =>
          /\ OwnCandidateMatches(fuel_series, "fuel_type", fuel_type)
          /\ OtherCandidatesDiffer(fuel_series, "fuel_type", fuel_type)
    /\ brand_series # << >> =>
          /\ OwnCandidateMatches(brand_series, "brand", brand)
          /\ OtherCandidatesDiffer(brand_series, "brand", brand)

\* both comparison series of a request hold the own and another candidate
C30_Witness ==
    /\ pc = "page_depreciation_charts"
    /\ Cardinality(SeriesCandidates(fuel_series)) > 1
    /\ Cardinality(SeriesCandidates(brand_series)) > 1
    /\ fuel_type \in SeriesCandidates(fuel_series)
    /\ brand \in SeriesCandidates(brand_series)
    /\ ~IsNone(expected_annual_km)

====
